---- MODULE Spec2Model ----
(***************************************************************************)
(* Model of ThumbnailResizerApp (src/youtube_thumbnail_resizer.py): the    *)
(* session state, the preview geometry, the manual-crop mouse gestures and *)
(* the three resize strategies.                                            *)
(*                                                                         *)
(* Python floats are modelled as exact rationals <<n, d>> (d > 0, lowest   *)
(* terms).  An image is modelled by its size <<w, h>>; None is <<>>.       *)
(***************************************************************************)
EXTENDS Integers, Sequences, FiniteSets, TLC

\* ------------------------------------------------------------------------
\* Bounds of the model
\* ------------------------------------------------------------------------
\* Largest width / height of an image the file dialog can deliver.
MaxImgW == 6
MaxImgH == 4
\* Largest canvas width / height a <Configure> event can report.
MaxCanvasW == 5
MaxCanvasH == 4

\* ------------------------------------------------------------------------
\* Program constants
\* ------------------------------------------------------------------------
TargetW == 1280
TargetH == 720
\* TARGET_RATIO = 1280 / 720, as a fraction in lowest terms
RatioNum == 16
RatioDen == 9
\* the drag threshold of _canvas_rect_to_image_rect, in canvas pixels
MinDragSpan == 3
\* denominator of the 1e-6 that replaces a zero abs_dy
EpsDen == 1000000

None == <<>>
NoPath == <<>>

\* ------------------------------------------------------------------------
\* Float arithmetic, as exact rationals
\* ------------------------------------------------------------------------
Abs(i) == IF i < 0 THEN -i ELSE i

RECURSIVE GCD(_, _)
GCD(a, b) == IF b = 0 THEN a ELSE GCD(b, a % b)

\* the fraction n/d (d # 0) in lowest terms with a positive denominator
Rat(n, d) ==
    LET g == GCD(Abs(n), Abs(d))
        s == IF d < 0 THEN -1 ELSE 1
    IN  <<(s * n) \div g, (s * d) \div g>>

RInt(i) == <<i, 1>>
RAdd(a, b) == Rat(a[1] * b[2] + b[1] * a[2], a[2] * b[2])
RSub(a, b) == Rat(a[1] * b[2] - b[1] * a[2], a[2] * b[2])
RMul(a, b) == Rat(a[1] * b[1], a[2] * b[2])
RDiv(a, b) == Rat(a[1] * b[2], a[2] * b[1])
RLt(a, b) == a[1] * b[2] < b[1] * a[2]
RLe(a, b) == a[1] * b[2] <= b[1] * a[2]
RMin(a, b) == IF RLt(b, a) THEN b ELSE a
RMax(a, b) == IF RLt(a, b) THEN b ELSE a
RAbs(a) == <<Abs(a[1]), a[2]>>
RIsZero(a) == a[1] = 0

IMax(a, b) == IF a >= b THEN a ELSE b
IMin(a, b) == IF a <= b THEN a ELSE b

\* int(x): truncation towards zero
Trunc(a) == IF a[1] >= 0 THEN a[1] \div a[2] ELSE -((-a[1]) \div a[2])

\* int(round(x)): Python 3 rounds halves to the even neighbour
Round(a) ==
    LET f == a[1] \div a[2]               \* floor
        r2 == 2 * (a[1] - f * a[2])       \* twice the fractional part, times d
    IN  IF r2 < a[2] THEN f
        ELSE IF r2 > a[2] THEN f + 1
        ELSE IF f % 2 = 0 THEN f ELSE f + 1

TARGET_RATIO == Rat(RatioNum, RatioDen)


\* ------------------------------------------------------------------------
\* Inputs of the environment
\* ------------------------------------------------------------------------
\* sizes of the images a file can decode to: one smaller than the canvas, one
\* larger
ImageSizes == {<<MaxImgW \div 2, MaxImgH \div 2>>, <<MaxImgW, MaxImgH>>}
\* sizes winfo_width() / winfo_height() can report (1 before the first layout)
CanvasSizes == {<<1, 1>>} \cup ({MaxCanvasW} \X {MaxCanvasH - 1, MaxCanvasH})
\* event.x / event.y of a press or release: integers near the edges of the
\* canvas, inside and outside the preview
MouseXs == {0, 1, MaxCanvasW - 1, MaxCanvasW}
MouseYs == {0, 1, MaxCanvasH}
\* event.x / event.y of a <B1-Motion> event
MotionXs == {MaxCanvasW}
MotionYs == {MaxCanvasH}
\* paths the open dialog can return, as <<root, extension>> (os.path.splitext)
Paths == {<<"a", ".png">>}
\* paths the save dialog can return
SavePaths == {<<"out", ".jpg">>}
\* values the quality scale's IntVar can hold when it is read
Qualities == {90}
Modes == {"fit", "center", "manual"}

\* ------------------------------------------------------------------------
\* State
\* ------------------------------------------------------------------------
VARIABLES
    image_path,          \* self.image_path (NoPath for None)
    original_image,      \* self.original_image: None or its size <<w, h>>
    canvas,              \* <<winfo_width(), winfo_height()>> of preview_canvas
    preview_scale,       \* self.preview_scale
    preview_offset,      \* self.preview_offset
    preview_bbox,        \* self.preview_bbox
    drag_start,          \* self.drag_start: None or a point
    drag_current,        \* self.drag_current: None or a point
    crop_rect_canvas_id, \* TRUE iff self.crop_rect_canvas_id is not None
    manual_crop_box,     \* self.manual_crop_box: None or <<l, t, r, b>>
    resize_mode,         \* self.resize_mode
    lock_aspect,         \* self.lock_aspect
    process_btn,         \* state of process_btn: TRUE iff "normal"
    manual_ui,           \* state of aspect_check / clear_crop_btn
    button_down,         \* mouse button 1 is held over the canvas
    ev                   \* the last event handled and what it showed / produced

vars == <<image_path, original_image, canvas, preview_scale, preview_offset,
          preview_bbox, drag_start, drag_current, crop_rect_canvas_id,
          manual_crop_box, resize_mode, lock_aspect, process_btn,
          manual_ui, button_down, ev>>

\* the variables of the preview geometry
geometry == <<preview_scale, preview_offset, preview_bbox>>

\* an event record: the handler that ran and what it reported (status line,
\* message box); for process_and_save also the mode, the processed image, the
\* suggested file name, the path chosen in the save dialog, the value read
\* from the quality control and the encoder arguments
NoResult == [kind |-> "none"]
Ev(op, out) ==
    [op |-> op, out |-> out, mode |-> "", result |-> NoResult,
     suggested |-> "", save_path |-> NoPath, control |-> 0,
     fmt |-> "", quality |-> 0]

\* ------------------------------------------------------------------------
\* Preview geometry (_render_preview)
\* ------------------------------------------------------------------------
\* (mutant) the preview is drawn in the top-left corner of the canvas
RenderGeometryTopLeft(img, cv) ==
    LET scale == RMin(Rat(IMax(1, cv[1]), img[1]), Rat(IMax(1, cv[2]), img[2]))
        draw_w == IMax(1, Trunc(RMul(RInt(img[1]), scale)))
        draw_h == IMax(1, Trunc(RMul(RInt(img[2]), scale)))
    IN  [scale  |-> scale,
         offset |-> <<RInt(0), RInt(0)>>,
         bbox   |-> <<RInt(0), RInt(0), RInt(draw_w), RInt(draw_h)>>]

\* scale, offset and bbox that _render_preview stores for image size img on a
\* canvas of size cv
RenderGeometry(img, cv) ==
    LET canvas_w == IMax(1, cv[1])
        canvas_h == IMax(1, cv[2])
        img_w == img[1]
        img_h == img[2]
        scale == RMin(Rat(canvas_w, img_w), Rat(canvas_h, img_h))
        draw_w == IMax(1, Trunc(RMul(RInt(img_w), scale)))
        draw_h == IMax(1, Trunc(RMul(RInt(img_h), scale)))
        offset_x == Rat(canvas_w - draw_w, 2)
        offset_y == Rat(canvas_h - draw_h, 2)
    IN  [scale  |-> scale,
         offset |-> <<offset_x, offset_y>>,
         bbox   |-> <<offset_x, offset_y,
                      RAdd(offset_x, RInt(draw_w)), RAdd(offset_y, RInt(draw_h))>>]

\* (mutant) the preview is redrawn with the geometry stored before
RenderPreviewKeepsGeometry(img, box, mode) ==
    /\ crop_rect_canvas_id' = (img # None /\ mode = "manual" /\ box # None)
    /\ UNCHANGED geometry

\* _render_preview with the image img and crop box box in place: the canvas is
\* wiped and the geometry stored; the saved rectangle is drawn again in manual
\* mode
RenderPreview(img, box, mode) ==
    IF img = None
    THEN /\ crop_rect_canvas_id' = FALSE
         /\ UNCHANGED geometry
    ELSE LET g == RenderGeometry(img, canvas')
         IN  /\ preview_scale' = g.scale
             /\ preview_offset' = g.offset
             /\ preview_bbox' = g.bbox
             /\ crop_rect_canvas_id' = (mode = "manual" /\ box # None)

\* ------------------------------------------------------------------------
\* Loading
\* ------------------------------------------------------------------------
\* (mutant) the failed load drops the image that was loaded before
ImageLostAfterFailedLoad == None

\* what a failed Image.open / load / exif_transpose / convert leaves in
\* self.original_image: the assignment of line 244 never happened
ImageAfterFailedLoad == original_image

\* (mutant) the load keeps the rectangle of the previous image
CropBoxKeptAfterLoad == manual_crop_box

\* manual_crop_box after a successful load (line 252)
CropBoxAfterLoad == None

\* select_image: the dialog is cancelled
SelectImageCancelled ==
    /\ ev' = Ev("select_image", "cancelled")
    /\ UNCHANGED <<image_path, original_image, canvas, geometry, drag_start,
                   drag_current, crop_rect_canvas_id, manual_crop_box,
                   resize_mode, lock_aspect, process_btn,
                   manual_ui, button_down>>

\* select_image: the chosen file cannot be opened or decoded
SelectImageFailed ==
    /\ original_image' = ImageAfterFailedLoad
    /\ ev' = Ev("select_image", "load_error")
    /\ UNCHANGED <<image_path, canvas, geometry, drag_start, drag_current,
                   crop_rect_canvas_id, manual_crop_box, resize_mode,
                   lock_aspect, process_btn, manual_ui, button_down>>

\* select_image: file_path decodes to an image of size img
SelectImageLoaded(file_path, img) ==
    /\ original_image' = img
    /\ image_path' = file_path
    /\ manual_crop_box' = CropBoxAfterLoad
    /\ process_btn' = TRUE
    /\ canvas' = canvas
    /\ RenderPreview(img, manual_crop_box', resize_mode)
    /\ ev' = Ev("select_image", "loaded")
    /\ UNCHANGED <<drag_start, drag_current, resize_mode, lock_aspect,
                   manual_ui, button_down>>

\* select_image, the dialog offering the files paths, which decode to sizes
SelectImage(paths, sizes) ==
    \/ SelectImageCancelled
    \/ SelectImageFailed
    \/ \E file_path \in paths, img \in sizes : SelectImageLoaded(file_path, img)

select_image == SelectImage(Paths, ImageSizes)

\* (mutant) redrawing the preview drops the rectangle
CropBoxDroppedByResize == None

\* manual_crop_box after _on_canvas_resize: lines 258-290 only read it
CropBoxAfterResize == manual_crop_box

\* <Configure>: the canvas gets a size cv of sizes, then _on_canvas_resize runs
CanvasResize(sizes) ==
    \E cv \in sizes :
        /\ canvas' = cv
        /\ manual_crop_box' = CropBoxAfterResize
        /\ IF original_image # None
           THEN RenderPreview(original_image, manual_crop_box', resize_mode)
           ELSE UNCHANGED <<geometry, crop_rect_canvas_id>>
        /\ ev' = Ev("canvas_resize", "done")
        /\ UNCHANGED <<image_path, original_image, drag_start, drag_current,
                       resize_mode, lock_aspect,
                       process_btn, manual_ui, button_down>>

_on_canvas_resize == CanvasResize(CanvasSizes)

\* ------------------------------------------------------------------------
\* Mode, aspect lock, clear
\* ------------------------------------------------------------------------
\* (mutant) leaving the manual mode keeps the rectangle
CropBoxKeptAfterModeChange(mode) == manual_crop_box

\* manual_crop_box after the mode changed to mode (lines 208-210)
CropBoxAfterModeChange(mode) ==
    IF mode # "manual" THEN None ELSE manual_crop_box

\* a radio button is clicked: resize_mode takes its value, then
\* _on_mode_changed runs
_on_mode_changed ==
    \E mode \in Modes :
        /\ resize_mode' = mode
        /\ manual_ui' = (mode = "manual")
        /\ manual_crop_box' = CropBoxAfterModeChange(mode)
        /\ crop_rect_canvas_id' =
               IF mode # "manual" THEN FALSE
               ELSE IF original_image # None /\ manual_crop_box # None THEN TRUE
               ELSE crop_rect_canvas_id
        /\ ev' = Ev("mode_changed", IF manual_crop_box' # manual_crop_box
                                    THEN "discarded" ELSE "done")
        /\ UNCHANGED <<image_path, original_image, canvas, geometry, drag_start,
                       drag_current, lock_aspect, process_btn,
                       button_down>>

\* the aspect check button is clicked (enabled in manual mode only):
\* lock_aspect flips, then _on_lock_toggle runs
_on_lock_toggle ==
    /\ manual_ui
    /\ lock_aspect' = ~lock_aspect
    /\ crop_rect_canvas_id' =
           IF resize_mode = "manual" /\ manual_crop_box # None /\ original_image # None
           THEN TRUE ELSE crop_rect_canvas_id
    /\ ev' = Ev("lock_toggle", "done")
    /\ UNCHANGED <<image_path, original_image, canvas, geometry, drag_start,
                   drag_current, manual_crop_box, resize_mode,
                   process_btn, manual_ui, button_down>>

\* manual_crop_box after clear_manual_crop (line 437)
CropBoxAfterClear == None

\* the Clear Selection button is clicked (enabled in manual mode only)
clear_manual_crop ==
    /\ manual_ui
    /\ manual_crop_box' = CropBoxAfterClear
    /\ crop_rect_canvas_id' = FALSE
    /\ ev' = Ev("clear_manual_crop", "done")
    /\ UNCHANGED <<image_path, original_image, canvas, geometry, drag_start,
                   drag_current, resize_mode, lock_aspect, process_btn,
                   manual_ui, button_down>>


\* ------------------------------------------------------------------------
\* Manual crop interactions
\* ------------------------------------------------------------------------
\* _clamp_to_preview: event coordinates clamped into preview_bbox
ClampToPreview(x, y) ==
    LET left == preview_bbox[1]
        top == preview_bbox[2]
        right == preview_bbox[3]
        bottom == preview_bbox[4]
    IN  <<RMin(RMax(RInt(x), left), right), RMin(RMax(RInt(y), top), bottom)>>

\* (mutant) the lock grows the shorter side instead of shrinking the longer
LockedPointGrowing(start, current) ==
    LET dx == RSub(current[1], start[1])
        dy == RSub(current[2], start[2])
        sign_x == IF dx[1] >= 0 THEN RInt(1) ELSE RInt(-1)
        sign_y == IF dy[1] >= 0 THEN RInt(1) ELSE RInt(-1)
        abs_dx == RAbs(dx)
        abs_dy == IF RIsZero(dy) THEN Rat(1, EpsDen) ELSE RAbs(dy)
        wide == RLt(TARGET_RATIO, RDiv(abs_dx, abs_dy))
        new_dx == IF wide THEN abs_dx ELSE RMul(abs_dy, TARGET_RATIO)
        new_dy == IF wide THEN RDiv(abs_dx, TARGET_RATIO) ELSE abs_dy
    IN  IF RIsZero(dx) /\ RIsZero(dy) THEN current
        ELSE <<RAdd(start[1], RMul(sign_x, new_dx)),
               RAdd(start[2], RMul(sign_y, new_dy))>>

\* _apply_aspect_lock with the aspect lock on
LockedPoint(start, current) ==
    LET sx == start[1]
        sy == start[2]
        dx == RSub(current[1], sx)
        dy == RSub(current[2], sy)
        sign_x == IF dx[1] >= 0 THEN RInt(1) ELSE RInt(-1)
        sign_y == IF dy[1] >= 0 THEN RInt(1) ELSE RInt(-1)
        abs_dx == RAbs(dx)
        abs_dy == IF RIsZero(dy) THEN Rat(1, EpsDen) ELSE RAbs(dy)
        current_ratio == RDiv(abs_dx, abs_dy)
        new_dx == IF RLt(TARGET_RATIO, current_ratio)
                  THEN RMul(abs_dy, TARGET_RATIO) ELSE abs_dx
        new_dy == IF RLt(TARGET_RATIO, current_ratio) THEN abs_dy
                  ELSE IF ~RIsZero(abs_dx) THEN RDiv(abs_dx, TARGET_RATIO)
                  ELSE RInt(0)
    IN  IF RIsZero(dx) /\ RIsZero(dy) THEN current
        ELSE <<RAdd(sx, RMul(sign_x, new_dx)), RAdd(sy, RMul(sign_y, new_dy))>>

\* _apply_aspect_lock
ApplyAspectLock(start, current) ==
    IF ~lock_aspect THEN current ELSE LockedPoint(start, current)

\* the test of line 399: the drag is too small on the canvas
DragTooSmall(left, top, right, bottom) ==
    \/ RLt(RSub(right, left), RInt(MinDragSpan))
    \/ RLt(RSub(bottom, top), RInt(MinDragSpan))

\* lines 406-409: a canvas coordinate mapped to an image coordinate
CanvasToImage(v, off) == Round(RDiv(RSub(v, off), preview_scale))

\* (mutant) the saved rectangle is drawn without scaling it to the preview
ImageToCanvasUnscaled(c, off) == RAdd(off, RInt(c))

\* lines 429-432: an image coordinate of the saved rectangle mapped to a
\* canvas coordinate
ImageToCanvas(c, off) == RAdd(off, RMul(RInt(c), preview_scale))

\* (mutant) the mapped edges are not clamped
ClampBoxUnclamped(l, t, r, b, img_w, img_h) == <<l, t, r, b>>

\* lines 411-414: the mapped edges clamped into the image
ClampBox(l, t, r, b, img_w, img_h) ==
    <<IMax(0, IMin(l, img_w - 1)), IMax(0, IMin(t, img_h - 1)),
      IMax(1, IMin(r, img_w)), IMax(1, IMin(b, img_h))>>

\* (mutant) neither the drag threshold nor the collapsed-box test is applied
CanvasRectToImageRectUnchecked(start, end) ==
    IF original_image = None THEN None
    ELSE ClampBox(CanvasToImage(RMin(start[1], end[1]), preview_offset[1]),
                  CanvasToImage(RMin(start[2], end[2]), preview_offset[2]),
                  CanvasToImage(RMax(start[1], end[1]), preview_offset[1]),
                  CanvasToImage(RMax(start[2], end[2]), preview_offset[2]),
                  original_image[1], original_image[2])

\* _canvas_rect_to_image_rect
CanvasRectToImageRect(start, end) ==
    IF original_image = None THEN None
    ELSE
    LET left == RMin(start[1], end[1])
        right == RMax(start[1], end[1])
        top == RMin(start[2], end[2])
        bottom == RMax(start[2], end[2])
        off_x == preview_offset[1]
        off_y == preview_offset[2]
        box == ClampBox(CanvasToImage(left, off_x), CanvasToImage(top, off_y),
                        CanvasToImage(right, off_x), CanvasToImage(bottom, off_y),
                        original_image[1], original_image[2])
    IN  IF DragTooSmall(left, top, right, bottom) THEN None
        ELSE IF box[3] <= box[1] \/ box[4] <= box[2] THEN None
        ELSE box

\* (mutant) the mouse handlers do not test the mode
MouseIgnoredWithoutImage(needs_drag) ==
    \/ original_image = None
    \/ (needs_drag /\ drag_start = None)

\* the early return shared by the three mouse handlers (lines 296, 305, 313)
MouseIgnored(needs_drag) ==
    \/ resize_mode # "manual"
    \/ original_image = None
    \/ (needs_drag /\ drag_start = None)

\* <ButtonPress-1> at (x, y)
_on_mouse_down ==
    \E x \in MouseXs, y \in MouseYs :
        /\ ~button_down
        /\ button_down' = TRUE
        /\ IF MouseIgnored(FALSE)
           THEN /\ ev' = Ev("mouse_down", "ignored")
                /\ UNCHANGED <<drag_start, drag_current, crop_rect_canvas_id>>
           ELSE /\ drag_start' = ClampToPreview(x, y)
                /\ drag_current' = ClampToPreview(x, y)
                /\ crop_rect_canvas_id' = TRUE
                /\ ev' = Ev("mouse_down", "started")
        /\ UNCHANGED <<image_path, original_image, canvas, geometry,
                       manual_crop_box, resize_mode, lock_aspect,
                       process_btn, manual_ui>>

\* <B1-Motion> at (x, y)
_on_mouse_drag ==
    \E x \in MotionXs, y \in MotionYs :
        /\ button_down
        /\ IF MouseIgnored(TRUE)
           THEN /\ ev' = Ev("mouse_drag", "ignored")
                /\ UNCHANGED <<drag_current, crop_rect_canvas_id>>
           ELSE /\ drag_current' = ApplyAspectLock(drag_start, ClampToPreview(x, y))
                /\ crop_rect_canvas_id' = TRUE
                /\ ev' = Ev("mouse_drag", "dragged")
        /\ UNCHANGED <<image_path, original_image, canvas, geometry, drag_start,
                       manual_crop_box, resize_mode, lock_aspect,
                       process_btn, manual_ui, button_down>>

\* drag_start after a mouse-up that was not ignored (line 329)
DragStartAfterMouseUp == None

\* (mutant) a rejected drag keeps the rectangle selected before
CropBoxKeptAfterRejectedDrag == manual_crop_box

\* manual_crop_box after a mouse-up whose rectangle was rejected (line 323)
CropBoxAfterRejectedDrag == None

\* <ButtonRelease-1> at (x, y)
_on_mouse_up ==
    \E x \in MouseXs, y \in MouseYs :
        /\ button_down
        /\ button_down' = FALSE
        /\ IF MouseIgnored(TRUE)
           THEN /\ ev' = Ev("mouse_up", "ignored")
                /\ UNCHANGED <<drag_start, drag_current, crop_rect_canvas_id,
                               manual_crop_box>>
           ELSE LET end == ApplyAspectLock(drag_start, ClampToPreview(x, y))
                    crop_box == CanvasRectToImageRect(drag_start, end)
                IN  /\ crop_rect_canvas_id' = TRUE
                    /\ IF crop_box = None
                       THEN /\ manual_crop_box' = CropBoxAfterRejectedDrag
                       ELSE /\ manual_crop_box' = crop_box
                    /\ drag_start' = DragStartAfterMouseUp
                    /\ drag_current' = None
                    /\ ev' = Ev("mouse_up", IF crop_box = None THEN "rejected"
                                                                  ELSE "selected")
        /\ UNCHANGED <<image_path, original_image, canvas, geometry, resize_mode,
                       lock_aspect, process_btn, manual_ui>>


\* ------------------------------------------------------------------------
\* Processing
\* ------------------------------------------------------------------------
TARGET_SIZE == <<TargetW, TargetH>>

\* the outcome of Image.resize to TARGET_SIZE of the region box of the source:
\* a raster of that size; resampling a region without pixels is left open
\* (an error or a raster)
ResizeRegion(box) ==
    LET raster == [kind |-> "raster", size |-> TARGET_SIZE, region |-> box,
                   scaled |-> TARGET_SIZE, paste |-> <<0, 0>>]
    IN  IF box[3] - box[1] >= 1 /\ box[4] - box[2] >= 1
        THEN {raster}
        ELSE {raster, [kind |-> "error"]}

\* the size ImageOps.contain(img, TARGET_SIZE) resizes to: the side that does
\* not fill the target is round()ed
ContainSize(img) ==
    LET w == img[1]
        h == img[2]
        im_ratio == Rat(w, h)
        dest_ratio == Rat(TargetW, TargetH)
        new_height == Round(RMul(Rat(h, w), RInt(TargetW)))
        new_width == Round(RMul(Rat(w, h), RInt(TargetH)))
    IN  IF im_ratio = dest_ratio THEN TARGET_SIZE
        ELSE IF RLt(dest_ratio, im_ratio) THEN <<TargetW, new_height>>
        ELSE <<new_width, TargetH>>

\* where _process_fit_with_padding pastes a scaled image of size sz (lines 520-521)
PastePosition(sz) == <<(TargetW - sz[1]) \div 2, (TargetH - sz[2]) \div 2>>

\* _process_fit_with_padding: Image.resize refuses a size with a side below 1
ProcessFitWithPadding(img) ==
    LET sz == ContainSize(img)
    IN  IF sz[1] < 1 \/ sz[2] < 1
        THEN {[kind |-> "error"]}
        ELSE {[kind |-> "raster", size |-> TARGET_SIZE,
               region |-> <<0, 0, img[1], img[2]>>,
               scaled |-> sz, paste |-> PastePosition(sz)]}

\* (mutant) the crop box starts at the top-left corner of the image
CenterCropBoxFromCorner(img) ==
    IF RLt(TARGET_RATIO, Rat(img[1], img[2]))
    THEN <<0, 0, Trunc(RMul(RInt(img[2]), TARGET_RATIO)), img[2]>>
    ELSE <<0, 0, img[1], Trunc(RDiv(RInt(img[1]), TARGET_RATIO))>>

\* the crop box of _process_center_crop (lines 526-536)
CenterCropBox(img) ==
    LET w == img[1]
        h == img[2]
        new_w == Trunc(RMul(RInt(h), TARGET_RATIO))
        new_h == Trunc(RDiv(RInt(w), TARGET_RATIO))
        left == (w - new_w) \div 2
        top == (h - new_h) \div 2
    IN  IF RLt(TARGET_RATIO, Rat(w, h))
        THEN <<left, 0, left + new_w, h>>
        ELSE <<0, top, w, top + new_h>>

\* _process_center_crop
ProcessCenterCrop(img) == ResizeRegion(CenterCropBox(img))

\* (mutant) the missing rectangle is not tested: Image.crop(None) copies the
\* whole image
ProcessManualUnchecked(box) ==
    IF box = None THEN ResizeRegion(<<0, 0, original_image[1], original_image[2]>>)
    ELSE ResizeRegion(box)

\* the manual branch of _process_image (lines 509-513)
ProcessManual(box) ==
    IF box = None THEN {[kind |-> "error"]} ELSE ResizeRegion(box)

\* _process_image: the set of its possible outcomes
ProcessImage(mode) ==
    IF mode = "fit" THEN ProcessFitWithPadding(original_image)
    ELSE IF mode = "center" THEN ProcessCenterCrop(original_image)
    ELSE IF mode = "manual" THEN ProcessManual(manual_crop_box)
    ELSE {[kind |-> "error"]}

\* the pre-check of lines 451-453
CropRequired(mode) == mode = "manual" /\ manual_crop_box = None

\* str.lower() on the extensions that occur
Lower(ext) == IF ext = ".PNG" THEN ".png" ELSE ext

PathString(path) == path[1] \o path[2]

\* the suggested file name (lines 462-466)
SuggestedName(path) ==
    path[1] \o "_yt_thumb" \o (IF Lower(path[2]) = ".png" THEN ".png" ELSE ".jpg")

\* (mutant) the format follows the extension of the source file
OutputFormatOfSource(save_path) ==
    IF Lower(image_path[2]) = ".png" THEN "PNG" ELSE "JPEG"

\* the format the raster is saved in (lines 486-491)
OutputFormat(save_path) == IF Lower(save_path[2]) = ".png" THEN "PNG" ELSE "JPEG"

\* the quality passed to the JPEG encoder (line 490)
JpegQuality(q) == IMax(1, IMin(100, q))

\* process_and_save, up to the save dialog: no image, no rectangle, or
\* _process_image raises
ProcessStopped ==
    /\ IF original_image = None \/ image_path = NoPath
       THEN /\ ev' = Ev("process_and_save", "no_image")
       ELSE IF CropRequired(resize_mode)
       THEN /\ ev' = [Ev("process_and_save", "crop_required") EXCEPT !.mode = resize_mode]
       ELSE \E res \in ProcessImage(resize_mode) :
            /\ res.kind = "error"
            /\ ev' = [Ev("process_and_save", "processing_error")
                         EXCEPT !.mode = resize_mode, !.result = res]

\* how the save dialog, the overwrite question and Image.save can end
\* (lines 475-495)
SaveOutcomes == {"save_cancelled", "overwrite_declined", "save_error", "saved"}

\* process_and_save with a processed image: the save dialog returns
\* save_path (or is cancelled), the file may exist and the user decline to
\* overwrite it, and saving may fail; q is the value of jpeg_quality
ProcessSaved(save_paths, qualities) ==
    /\ original_image # None /\ image_path # NoPath
    /\ ~CropRequired(resize_mode)
    /\ \E res \in ProcessImage(resize_mode), out \in SaveOutcomes :
        LET shown == [Ev("process_and_save", out)
                         EXCEPT !.mode = resize_mode, !.result = res,
                                !.suggested = SuggestedName(image_path)]
        IN
        /\ res.kind = "raster"
        /\ IF out # "saved"
           THEN ev' = shown
           ELSE \E save_path \in save_paths, q \in qualities :
                  ev' = [shown EXCEPT
                            !.save_path = save_path,
                            !.control = IF OutputFormat(save_path) = "JPEG"
                                        THEN q ELSE 0,
                            !.fmt = OutputFormat(save_path),
                            !.quality = IF OutputFormat(save_path) = "JPEG"
                                        THEN JpegQuality(q) ELSE 0]

\* (mutant) processing uses the rectangle up
CropBoxConsumedByProcess == None

\* manual_crop_box after process_and_save: lines 444-498 only read it
CropBoxAfterProcess == manual_crop_box

\* the Resize and Save button is clicked (enabled once an image was loaded)
ProcessAndSave(save_paths, qualities) ==
    /\ process_btn
    /\ (ProcessStopped \/ ProcessSaved(save_paths, qualities))
    /\ manual_crop_box' = CropBoxAfterProcess
    /\ UNCHANGED <<image_path, original_image, canvas, geometry, drag_start,
                   drag_current, crop_rect_canvas_id,
                   resize_mode, lock_aspect, process_btn, manual_ui, button_down>>

\* ------------------------------------------------------------------------
\* The session
\* ------------------------------------------------------------------------
Init ==
    /\ image_path = NoPath
    /\ original_image = None
    /\ canvas = <<1, 1>>
    /\ preview_scale = RInt(1)
    /\ preview_offset = <<RInt(0), RInt(0)>>
    /\ preview_bbox = <<RInt(0), RInt(0), RInt(0), RInt(0)>>
    /\ drag_start = None
    /\ drag_current = None
    /\ crop_rect_canvas_id = FALSE
    /\ manual_crop_box = None
    /\ resize_mode = "fit"
    /\ lock_aspect = TRUE
    /\ process_btn = FALSE
    /\ manual_ui = FALSE
    /\ button_down = FALSE
    /\ ev = Ev("init", "done")

process_and_save == ProcessAndSave(SavePaths, Qualities)

Next ==
    \/ select_image
    \/ _on_canvas_resize
    \/ _on_mode_changed
    \/ _on_lock_toggle
    \/ clear_manual_crop
    \/ _on_mouse_down
    \/ _on_mouse_drag
    \/ _on_mouse_up
    \/ process_and_save

Spec == Init /\ [][Next]_vars


\* ------------------------------------------------------------------------
\* The resize strategies over a wide range of image sizes
\* ------------------------------------------------------------------------
\* Largest side of the small images swept exhaustively
MaxSide == 18

\* sides of the images: all small ones, and some around the target size and
\* around the aspect ratios at which a scaled side rounds to zero
EngineSides == (1..MaxSide) \cup {100, 720, 1280, 1441, 2000, 2561, 3000, 4000}
EngineSizes == EngineSides \X EngineSides
EnginePaths == {<<"a", ".png">>, <<"b", ".jpg">>}
EngineSavePaths == {<<"out", ".png">>, <<"out", ".PNG">>, <<"out", ".jpg">>, <<"out", "">>}
EngineQualities == {0, 1, 90, 100, 101}

\* a session that loads one image and processes it in every mode
EngineNext ==
    \/ (original_image = None /\ SelectImage(EnginePaths, EngineSizes))
    \/ _on_mode_changed
    \/ ProcessAndSave(EngineSavePaths, EngineQualities)

SpecEngine == Init /\ [][EngineNext]_vars

\* ------------------------------------------------------------------------
\* The preview geometry over all small image and canvas sizes
\* ------------------------------------------------------------------------
\* Largest side of the images and canvases swept exhaustively
MaxPreviewSide == 8

PreviewImageSizes == (1..MaxPreviewSide) \X (1..MaxPreviewSide)
PreviewCanvasSizes == (1..MaxPreviewSide) \X (1..MaxPreviewSide)

\* a session that loads one image and resizes the window
PreviewNext ==
    \/ (original_image = None /\ SelectImage(Paths, PreviewImageSizes))
    \/ CanvasResize(PreviewCanvasSizes)

SpecPreview == Init /\ [][PreviewNext]_vars


\* ------------------------------------------------------------------------
\* Properties
\* ------------------------------------------------------------------------
ImageLoaded == original_image # None
BoxSet == manual_crop_box # None
BoxWidth == manual_crop_box[3] - manual_crop_box[1]
BoxHeight == manual_crop_box[4] - manual_crop_box[2]
Accepted == ev.op = "mouse_up" /\ ev.out = "selected"
Rejected == ev.op = "mouse_up" /\ ev.out = "rejected"
Processed == ev.op = "process_and_save"

\* a mouse handler would not return early: a drag is in progress in manual mode
Dragging == drag_start # None /\ ~MouseIgnored(TRUE)

\* the preview spans at least the drag threshold on both axes
PreviewWideEnough ==
    /\ RLe(RInt(MinDragSpan), RSub(preview_bbox[3], preview_bbox[1]))
    /\ RLe(RInt(MinDragSpan), RSub(preview_bbox[4], preview_bbox[2]))

\* C1: whenever a crop rectangle is set, an image is loaded and the rectangle
\* is an integer rectangle with 0 <= left < right <= W and
\* 0 <= top < bottom <= H for the size W x H of that image, whatever events
\* (loads and canvas resizes during a drag included) led to it.
C1_CropBoxInsideImage ==
    BoxSet =>
        /\ ImageLoaded
        /\ \A i \in 1..4 : manual_crop_box[i] \in Nat
        /\ manual_crop_box[1] < manual_crop_box[3]
        /\ manual_crop_box[3] <= original_image[1]
        /\ manual_crop_box[2] < manual_crop_box[4]
        /\ manual_crop_box[4] <= original_image[2]

\* a rectangle was accepted that reaches the right and the bottom edge of the
\* image
C1_Witness ==
    /\ Accepted /\ BoxSet
    /\ manual_crop_box[3] = original_image[1]
    /\ manual_crop_box[4] = original_image[2]

\* C2: with the manual mode selected and no crop rectangle, _process_image
\* only fails, and a process_and_save that ran in that state stopped at the
\* "crop required" warning without a processed image.
C2_ManualWithoutBoxProducesNothing ==
    (ImageLoaded /\ resize_mode = "manual" /\ ~BoxSet) =>
        /\ \A res \in ProcessImage("manual") : res.kind = "error"
        /\ Processed => (ev.out = "crop_required" /\ ev.result = NoResult)

\* process_and_save was requested in manual mode without a rectangle
C2_Witness ==
    /\ Processed /\ ev.out = "crop_required"
    /\ ImageLoaded /\ resize_mode = "manual" /\ ~BoxSet

\* the span of the drag from a to b on axis i, tested without DragTooSmall
SpanBelowThreshold(a, b, i) ==
    LET d == RSub(a[i], b[i])
    IN  Abs(d[1]) < MinDragSpan * d[2]

\* C3: during a drag, for every release point, the rectangle computed from the
\* start and the aspect-adjusted end is none when the drag spans less than 3
\* canvas pixels on either axis, and every rectangle returned has
\* right - left >= 1 and bottom - top >= 1; and after a rejected mouse-up the
\* session holds no crop rectangle.
C3_SmallDragRejected ==
    /\ Dragging =>
          \A x \in MouseXs, y \in MouseYs :
              LET end == ApplyAspectLock(drag_start, ClampToPreview(x, y))
                  box == CanvasRectToImageRect(drag_start, end)
              IN  /\ (SpanBelowThreshold(drag_start, end, 1)
                        \/ SpanBelowThreshold(drag_start, end, 2)) => box = None
                  /\ box # None => (box[3] - box[1] >= 1 /\ box[4] - box[2] >= 1)
    /\ Rejected => ~BoxSet

\* a mouse-up was rejected on a preview in which a large enough drag exists
C3_Witness == Rejected /\ ~BoxSet /\ PreviewWideEnough

\* C4: with the aspect lock on, for every drag start and every current point
\* other than the start, the adjusted point is 16:9 away from the start
\* (9*|dx| = 16*|dy|, not both zero) and lies on the same side of the start as
\* the current point on both axes.
C4_LockKeepsRatioAndDirection ==
    (Dragging /\ lock_aspect) =>
        \A x \in MouseXs, y \in MouseYs :
            LET current == ClampToPreview(x, y)
                p == ApplyAspectLock(drag_start, current)
                dx == RSub(current[1], drag_start[1])
                dy == RSub(current[2], drag_start[2])
                px == RSub(p[1], drag_start[1])
                py == RSub(p[2], drag_start[2])
            IN  current # drag_start =>
                    /\ ~RIsZero(px) /\ ~RIsZero(py)
                    /\ RMul(RInt(RatioDen), RAbs(px)) = RMul(RInt(RatioNum), RAbs(py))
                    /\ (dx[1] > 0 => px[1] > 0) /\ (dx[1] < 0 => px[1] < 0)
                    /\ (dy[1] > 0 => py[1] > 0) /\ (dy[1] < 0 => py[1] < 0)

\* the source region of a processed image is not empty and inside the image
RegionValid(res) ==
    /\ 0 <= res.region[1] /\ res.region[1] < res.region[3]
    /\ res.region[3] <= original_image[1]
    /\ 0 <= res.region[2] /\ res.region[2] < res.region[4]
    /\ res.region[4] <= original_image[2]

\* C5: every process_and_save in center mode gets a 1280x720 raster resized
\* from a center-crop box that is not empty and lies inside the image, so no
\* pixel of the result is padding.
C5_CenterCropAlwaysFills ==
    (Processed /\ ev.mode = "center") =>
        /\ ev.result.kind = "raster"
        /\ ev.result.size = TARGET_SIZE
        /\ ev.result.scaled = TARGET_SIZE
        /\ RegionValid(ev.result)

\* C6: every process_and_save in fit mode gets a 1280x720 raster: the scaled
\* image has 1 <= scaledW <= 1280 and 1 <= scaledH <= 720, fills one axis, is
\* within one pixel of the source's aspect ratio on the other, and is pasted
\* at x = (1280 - scaledW) div 2 >= 0, y = (720 - scaledH) div 2 >= 0, the
\* paddings of opposite sides differing by at most one pixel.
C6_FitAlwaysFits ==
    (Processed /\ ev.mode = "fit") =>
        /\ ev.result.kind = "raster"
        /\ ev.result.size = TARGET_SIZE
        /\ LET sw == ev.result.scaled[1]
               sh == ev.result.scaled[2]
               x == ev.result.paste[1]
               y == ev.result.paste[2]
               w == original_image[1]
               h == original_image[2]
           IN  /\ 1 <= sw /\ sw <= TargetW
               /\ 1 <= sh /\ sh <= TargetH
               /\ sw = TargetW \/ sh = TargetH
               /\ sw = TargetW => Abs(sh * w - TargetW * h) <= w
               /\ sh = TargetH => Abs(sw * h - TargetH * w) <= h
               /\ x = (TargetW - sw) \div 2 /\ x >= 0
               /\ y = (TargetH - sh) \div 2 /\ y >= 0
               /\ (TargetW - sw - x) - x \in {0, 1}
               /\ (TargetH - sh - y) - y \in {0, 1}

\* C7: a select_image that fails to load leaves original_image, image_path,
\* manual_crop_box, the preview geometry and the state of the process button
\* as they were.
C7_FailedLoadChangesNothing ==
    [][(ev'.op = "select_image" /\ ev'.out = "load_error") =>
          UNCHANGED <<original_image, image_path, manual_crop_box, geometry,
                      process_btn>>]_vars

\* a load failed while an image with a crop rectangle was loaded
C7_Witness ==
    /\ ev.op = "select_image" /\ ev.out = "load_error"
    /\ ImageLoaded /\ BoxSet /\ process_btn

\* C8: right after a successful select_image and right after
\* clear_manual_crop no crop rectangle is set.
C8_LoadAndClearDropBox ==
    /\ (ev.op = "select_image" /\ ev.out = "loaded") => ~BoxSet
    /\ ev.op = "clear_manual_crop" => ~BoxSet

\* an image was loaded in manual mode, in the middle of a drag
C8_Witness ==
    /\ ev.op = "select_image" /\ ev.out = "loaded"
    /\ resize_mode = "manual" /\ drag_start # None /\ ~BoxSet

\* C9 (as claimed): whenever a crop rectangle is set it is at least 3 source
\* pixels wide and 3 source pixels high.
C9_BoxAtLeastThreeSourcePixels ==
    BoxSet => (BoxWidth >= MinDragSpan /\ BoxHeight >= MinDragSpan)

\* C9 (amended): whenever a crop rectangle is set it is at least 1 source
\* pixel wide and 1 source pixel high; the minimum of 3 is one of canvas
\* pixels, applied to the drag.
C9_BoxAtLeastOneSourcePixel ==
    BoxSet => (BoxWidth >= 1 /\ BoxHeight >= 1)

\* a rectangle narrower than 3 source pixels was accepted on an image that is
\* at least 3 pixels wide
C9_Witness ==
    /\ Accepted /\ BoxSet
    /\ BoxWidth < MinDragSpan /\ original_image[1] >= MinDragSpan

\* C10: after every mouse-up (the button goes from held to released)
\* drag_start and drag_current are None.
C10_NoDragAfterMouseUp ==
    [][(button_down /\ ~button_down') =>
          (drag_start' = None /\ drag_current' = None)]_vars

\* the size of the preview drawn on the canvas, from the stored bbox
DrawW == RSub(preview_bbox[3], preview_bbox[1])
DrawH == RSub(preview_bbox[4], preview_bbox[2])

\* C11: with an image of size W x H loaded on a canvas of size cw x ch, the
\* stored scale is min(cw/W, ch/H) (it fits both axes and fills one), the
\* displayed size does not exceed the canvas (round(W*scale) <= cw,
\* round(H*scale) <= ch, and the drawn size is a whole number of pixels >= 1
\* within the canvas), the margins on opposite sides of each axis differ by at
\* most one pixel, and bbox = (offX, offY, offX + drawW, offY + drawH) lies
\* inside the canvas.
C11_PreviewFitsAndIsCentered ==
    ImageLoaded =>
        LET W == original_image[1]
            H == original_image[2]
            cw == RInt(canvas[1])
            ch == RInt(canvas[2])
            sw == RMul(RInt(W), preview_scale)
            sh == RMul(RInt(H), preview_scale)
        IN  /\ RLe(sw, cw) /\ RLe(sh, ch) /\ (sw = cw \/ sh = ch)
            /\ Round(sw) <= canvas[1] /\ Round(sh) <= canvas[2]
            /\ DrawW[2] = 1 /\ DrawW[1] >= 1 /\ RLe(DrawW, cw)
            /\ DrawH[2] = 1 /\ DrawH[1] >= 1 /\ RLe(DrawH, ch)
            /\ RLe(RAbs(RSub(preview_bbox[1], RSub(cw, preview_bbox[3]))), RInt(1))
            /\ RLe(RAbs(RSub(preview_bbox[2], RSub(ch, preview_bbox[4]))), RInt(1))
            /\ preview_bbox[1] = preview_offset[1]
            /\ preview_bbox[2] = preview_offset[2]
            /\ RLe(RInt(0), preview_bbox[1]) /\ RLe(preview_bbox[3], cw)
            /\ RLe(RInt(0), preview_bbox[2]) /\ RLe(preview_bbox[4], ch)

\* the window was resized around a loaded image that is scaled by a fraction
\* and leaves a margin of half a pixel on one axis
C11_Witness ==
    /\ ImageLoaded /\ ev.op = "canvas_resize"
    /\ preview_scale[2] # 1
    /\ preview_offset[1][2] = 2 \/ preview_offset[2][2] = 2

\* C12: for every stored crop rectangle, each of its four source coordinates
\* mapped forward to the canvas (offset + coordinate * scale, as
\* _draw_saved_crop_rect does) and back (round((v - offset) / scale)) is within
\* one source pixel of itself, under the geometry currently stored.
C12_ForwardThenBackIsIdentity ==
    (ImageLoaded /\ BoxSet) =>
        \A i \in 1..4 :
            LET off == preview_offset[IF i \in {1, 3} THEN 1 ELSE 2]
                back == CanvasToImage(ImageToCanvas(manual_crop_box[i], off), off)
            IN  Abs(back - manual_crop_box[i]) <= 1

\* the window was resized after a rectangle was selected, to a size where the
\* image is scaled by a fraction
C12_Witness ==
    /\ ImageLoaded /\ BoxSet /\ ev.op = "canvas_resize"
    /\ preview_scale[2] # 1
    /\ manual_crop_box[3] > 1

Saved == Processed /\ ev.out = "saved"

\* C13: whenever an image was saved, it was encoded as PNG if the extension of
\* the save path is .png in any letter case and as JPEG otherwise, whatever
\* the extension of the source file; the quality given to the JPEG encoder is
\* within 1..100 whatever the quality control held; and the extension of the
\* source file decides the extension of the suggested name.
C13_FormatFollowsSavePath ==
    Saved =>
        /\ ev.fmt \in {"PNG", "JPEG"}
        /\ ev.fmt = "PNG" <=> ev.save_path[2] \in {".png", ".PNG"}
        /\ ev.fmt = "JPEG" => ev.quality \in 1..100
        /\ ev.suggested = image_path[1] \o "_yt_thumb"
                             \o (IF image_path[2] = ".png" THEN ".png" ELSE ".jpg")

\* a PNG source was saved as a JPEG while the quality control held a value
\* above 100
C13_Witness ==
    /\ Saved /\ image_path[2] = ".png"
    /\ ev.fmt = "JPEG" /\ ev.control > 100 /\ ev.quality = 100

\* C14: whatever the outcome of a process_and_save (a warning, a processing
\* error, a cancelled or declined save, a save error, success), the loaded
\* image, its path, the crop rectangle, the mode, the aspect-lock flag and the
\* preview geometry are as before, and the Resize and Save button is still
\* enabled with an image loaded, so that process_and_save can be requested
\* again.
C14_ProcessLeavesSessionUsable ==
    [][(ev'.op = "process_and_save") =>
          /\ UNCHANGED <<original_image, image_path, manual_crop_box,
                         resize_mode, lock_aspect, geometry>>
          /\ process_btn' /\ original_image' # None]_vars

\* saving failed in manual mode with a crop rectangle selected
C14_Witness ==
    /\ Processed /\ ev.out = "save_error"
    /\ resize_mode = "manual" /\ BoxSet /\ process_btn

\* C15: in every state with an image loaded, preview_scale, preview_offset and
\* preview_bbox are the geometry of the loaded image's size on the current
\* canvas size, so the mouse handlers clamp and map with the geometry of the
\* image displayed.
C15_GeometryNeverStale ==
    ImageLoaded =>
        LET g == RenderGeometry(original_image, canvas)
        IN  /\ preview_scale = g.scale
            /\ preview_offset = g.offset
            /\ preview_bbox = g.bbox

\* an image was loaded over another one in the middle of a drag, on a canvas
\* that has been laid out
C15_Witness ==
    /\ ev.op = "select_image" /\ ev.out = "loaded"
    /\ drag_start # None /\ canvas # <<1, 1>>

\* C16: with an image of size W x H loaded and a preview that spans at least 3
\* canvas pixels on both axes, a press at or beyond the top-left corner of the
\* preview and a release at or beyond its bottom-right corner clamp to those
\* corners, and with the aspect lock off the rectangle of that drag is
\* (0, 0, W, H).
C16_FullDragSelectsWholeImage ==
    (ImageLoaded /\ PreviewWideEnough) =>
        LET top_left == <<preview_bbox[1], preview_bbox[2]>>
            bottom_right == <<preview_bbox[3], preview_bbox[4]>>
        IN  /\ ClampToPreview(0, 0) = top_left
            /\ ClampToPreview(canvas[1], canvas[2]) = bottom_right
            /\ CanvasRectToImageRect(top_left, bottom_right)
                   = <<0, 0, original_image[1], original_image[2]>>

\* C17: for the loaded image of size W x H the center-crop box is
\* (left, 0, left + floor(H*16/9), H) with left = (W - floor(H*16/9)) div 2 if
\* W/H > 16/9, and (0, top, W, top + floor(W*9/16)) with
\* top = (H - floor(W*9/16)) div 2 otherwise; one axis is kept in full, the
\* margins removed on the two sides of the other axis differ by at most one
\* pixel, an image of exactly 16:9 is not cropped, and a raster produced in
\* center mode is resized from that box.
C17_CenterCropIsSymmetric ==
    ImageLoaded =>
        LET W == original_image[1]
            H == original_image[2]
            box == CenterCropBox(original_image)
            new_w == (H * RatioNum) \div RatioDen
            new_h == (W * RatioDen) \div RatioNum
            left == (W - new_w) \div 2
            top == (H - new_h) \div 2
        IN  /\ W * RatioDen > H * RatioNum => box = <<left, 0, left + new_w, H>>
            /\ W * RatioDen <= H * RatioNum => box = <<0, top, W, top + new_h>>
            /\ (box[1] = 0 /\ box[3] = W) \/ (box[2] = 0 /\ box[4] = H)
            /\ Abs(box[1] - (W - box[3])) <= 1
            /\ Abs(box[2] - (H - box[4])) <= 1
            /\ W * RatioDen = H * RatioNum => box = <<0, 0, W, H>>
            /\ (Processed /\ ev.mode = "center" /\ ev.result.kind = "raster")
                  => ev.result.region = box

\* an image wider than 16:9 was processed in center mode and lost one column
\* more on the right than on the left
C17_Witness ==
    /\ Processed /\ ev.mode = "center" /\ ev.result.kind = "raster"
    /\ ev.result.region[2] = 0 /\ ev.result.region[4] = original_image[2]
    /\ original_image[1] - ev.result.region[3] = ev.result.region[1] + 1

\* C18: a crop rectangle is set only while the mode is manual, and when the
\* mode returns to manual from fit or center no rectangle is set: the one
\* drawn before leaving the manual mode is gone.
C18_BoxOnlyInManualMode ==
    [][/\ BoxSet' => resize_mode' = "manual"
       /\ (resize_mode # "manual" /\ resize_mode' = "manual") => ~BoxSet']_vars

\* the mode was switched away from manual while a rectangle was selected
C18_Witness ==
    /\ ev.op = "mode_changed" /\ ev.out = "discarded"
    /\ resize_mode # "manual" /\ ~BoxSet

\* C19: a mouse-down, mouse-drag or mouse-up handled while the mode is not
\* manual or while no image is loaded leaves drag_start, drag_current and
\* manual_crop_box as they were, and a mouse-drag or mouse-up handled while
\* drag_start is None leaves manual_crop_box as it was.
C19_IgnoredMouseEventsChangeNothing ==
    [][/\ (/\ ev'.op \in {"mouse_down", "mouse_drag", "mouse_up"}
           /\ (resize_mode # "manual" \/ original_image = None))
          => UNCHANGED <<drag_start, drag_current, manual_crop_box>>
       /\ (ev'.op \in {"mouse_drag", "mouse_up"} /\ drag_start = None)
          => UNCHANGED manual_crop_box]_vars

\* the pointer moved with the button held after the mode was switched away
\* from manual in the middle of a drag
C19_Witness ==
    /\ ev.op = "mouse_drag" /\ ev.out = "ignored"
    /\ ImageLoaded /\ resize_mode # "manual" /\ drag_start # None

\* v lies between a and b
Between(v, a, b) == RLe(RMin(a, b), v) /\ RLe(v, RMax(a, b))

\* the point p lies inside preview_bbox
InPreview(p) ==
    /\ RLe(preview_bbox[1], p[1]) /\ RLe(p[1], preview_bbox[3])
    /\ RLe(preview_bbox[2], p[2]) /\ RLe(p[2], preview_bbox[4])

\* C20: during a drag with the aspect lock on, for every pointer position
\* whose clamped point differs from the drag start vertically, the adjusted
\* point lies in the rectangle spanned by the start and the clamped point
\* (|dx'| <= |dx|, |dy'| <= |dy|, on the same side of the start), and it lies
\* inside the preview bbox if the start does.
C20_LockOnlyShrinks ==
    (Dragging /\ lock_aspect) =>
        \A x \in 0..canvas[1], y \in 0..canvas[2] :
            LET current == ClampToPreview(x, y)
                p == ApplyAspectLock(drag_start, current)
                dx == RSub(current[1], drag_start[1])
                dy == RSub(current[2], drag_start[2])
                px == RSub(p[1], drag_start[1])
                py == RSub(p[2], drag_start[2])
            IN  ~RIsZero(dy) =>
                    /\ RLe(RAbs(px), RAbs(dx)) /\ RLe(RAbs(py), RAbs(dy))
                    /\ Between(p[1], drag_start[1], current[1])
                    /\ Between(p[2], drag_start[2], current[2])
                    /\ InPreview(drag_start) => InPreview(p)

\* a motion event with the lock on moved the corner of the rectangle to a
\* point other than the clamped pointer position, vertically away from the
\* start
C20_Witness ==
    /\ ev.op = "mouse_drag" /\ ev.out = "dragged" /\ lock_aspect
    /\ drag_current[2] # drag_start[2]
    /\ drag_current # ClampToPreview(MaxCanvasW, MaxCanvasH)

\* C21: a canvas resize and a toggle of the aspect lock leave manual_crop_box
\* exactly as it was, and a raster produced in manual mode is resized from
\* the rectangle stored at that moment, in source pixels, whatever the size
\* of the window has become.
C21_ViewChangesKeepCropBox ==
    [][/\ ev'.op \in {"canvas_resize", "lock_toggle"} => UNCHANGED manual_crop_box
       /\ (/\ ev'.op = "process_and_save" /\ ev'.mode = "manual"
           /\ ev'.result.kind = "raster")
          => (BoxSet /\ ev'.result.region = manual_crop_box)]_vars

\* the window shrank to a single pixel while a rectangle was selected in
\* manual mode
C21_Witness ==
    /\ ev.op = "canvas_resize" /\ resize_mode = "manual" /\ BoxSet
    /\ canvas = <<1, 1>>

====
